---- MODULE Spec2Model ----
(***************************************************************************)
(* State machine of the room-makeover editor: the App component            *)
(* (src/App.tsx), the geminiService module appended to it and the          *)
(* MaskingCanvas component (src/unnamed/part_000).                         *)
(*                                                                         *)
(* JavaScript values are tagged records, so that null, '' and a data URL   *)
(* can be compared: Null, Str(s), DataUrl(mime, data), File(...).          *)
(***************************************************************************)
EXTENDS Naturals, Sequences, FiniteSets, TLC

VARIABLES
  status,             \* App: useState<Status>
  originalImage,      \* App: File | null
  maskImage,          \* App: string | null
  prompt,             \* App: string, a sequence of characters
  generatedImage,     \* App: string | null
  error,              \* App: string | null
  brushSize,          \* App: number
  clearCanvasCounter, \* App: number
  isDrawing,          \* MaskingCanvas: useState(false)
  lastPoint,          \* MaskingCanvas: lastPointRef.current
  dimensions,         \* MaskingCanvas: displayed width of both canvases, 0 before the first load
  canvas,             \* MaskingCanvas: content of the drawing canvas, the set of segments stroked on it
  loading,            \* MaskingCanvas: Image objects of drawImage whose onload has not fired
  timers,             \* MaskingCanvas: setTimeout(.., 0) callbacks of drawImage, in firing order
  requests,           \* handleGenerate calls that passed the input check and have not settled
  accepted,           \* history: number of handleGenerate calls that passed the input check
  calls,              \* history: number of calls of ai.models.generateContent
  drawn,              \* history: segments stroked since the last clear or image load
  ev                  \* history: the handler that ran last ("other" for those no property names)

vars == <<status, originalImage, maskImage, prompt, generatedImage, error, brushSize,
          clearCanvasCounter, isDrawing, lastPoint, dimensions, canvas, loading, timers,
          requests, accepted, calls, drawn, ev>>

appVars == <<status, originalImage, maskImage, prompt, generatedImage, error, brushSize,
             clearCanvasCounter>>

canvasVars == <<isDrawing, lastPoint, dimensions, canvas, loading, timers, drawn>>

reqVars == <<requests, accepted, calls>>

----------------------------------------------------------------------------
(* Bounds of the model *)

\* handleGenerate calls accepted in one run
MaxRequests == 2
\* value at which clearCanvasCounter stops being incremented
MaxClear == 1
\* drawImage calls whose onload or timeout is still to come
MaxPending == 1

(* Program constants *)

\* 4 * 1024 * 1024, the limit of handleImageUpload
MaxFileSize == 4194304
\* useState(40)
DefaultBrush == 40

(* Input domains *)

FileSizes == {MaxFileSize - 1, MaxFileSize, MaxFileSize + 1}
Prompts == {<<>>, <<" ">>, <<" ", "a">>}
BrushSizes == {DefaultBrush, 100}
Points == {[x |-> 1, y |-> 1]}
Widths == {1, 2}
ResponseKinds == {"image", "text", "none", "throw", "throwEmpty"}

----------------------------------------------------------------------------
(* Values *)

Null == [t |-> "null"]
Str(s) == [t |-> "str", s |-> s]
EmptyStr == Str("")
DataUrl(mime, data) == [t |-> "dataurl", mime |-> mime, data |-> data]
File(name, type, bytes) == [t |-> "file", name |-> name, type |-> type, bytes |-> bytes]
\* file.size: the length of the file's content
SizeOf(file) == file.bytes.size

\* JavaScript truthiness of a string | null | File value
Truthy(v) == v # Null /\ v # EmptyStr

Idle == "Idle"
Masking == "Masking"
Loading == "Loading"
Done == "Done"
Error == "Error"

UploadSizeMsg == Str("Image size should be less than 4MB.")
GenerateInputMsg == Str("Please upload an image, mask an area, and enter a prompt.")
NoImageMsg == Str("Image generation failed: No image data received from the API.")
UnknownMsg == Str("An unknown error occurred.")

----------------------------------------------------------------------------
(* Pure functions *)

IsSpace(c) == c = " "

RECURSIVE TrimStart(_)
TrimStart(s) == IF s # <<>> /\ IsSpace(Head(s)) THEN TrimStart(Tail(s)) ELSE s

RECURSIVE TrimEnd(_)
TrimEnd(s) == IF s # <<>> /\ IsSpace(s[Len(s)]) THEN TrimEnd(SubSeq(s, 1, Len(s) - 1)) ELSE s

\* String.prototype.trim
Trim(s) == TrimEnd(TrimStart(s))

\* FileReader.readAsDataURL: "data:<type>;base64,<content>"
ReadAsDataURL(file) == DataUrl(file.type, file.bytes)

\* fileToBase64: split the data URL at ',' and take the mime type out of the head
fileToBase64(file) ==
  LET result == ReadAsDataURL(file)
  IN  [base64 |-> result.data, mimeType |-> result.mime]

\* dataURLtoFile: decode the payload of a data URL into a File of its mime type
dataURLtoFile(dataurl, filename) == File(filename, dataurl.mime, dataurl.data)

\* HTMLCanvasElement.toDataURL(): the PNG encoding of the canvas content
toDataURL(cv) == DataUrl("image/png", cv)

\* maskImage.split(',')[1]
maskBase64(mask) == mask.data

\* the file a user picks: its content is identified by its size
PickedFile(size) == File("room.jpg", "image/jpeg", [id |-> "upload", size |-> size])

\* the image the service returns for a request: it is identified by the request
ResultImage(r) == [id |-> "result", req |-> r.id, of |-> r.base64]

\* what generateInpaintedImage makes of the response of generateContent:
\* the image data it returns, or the Error it throws
ServiceOutcome(r, kind) ==
  CASE kind = "image" -> [ok |-> TRUE, data |-> ResultImage(r)]
    [] kind = "text" -> [ok |-> FALSE, message |-> Str("Image generation failed. Model response: " \o "blocked")]
    [] kind = "none" -> [ok |-> FALSE, message |-> NoImageMsg]
    [] kind = "throw" -> [ok |-> FALSE, message |-> Str("fetch failed")]
    [] kind = "throwEmpty" -> [ok |-> FALSE, message |-> EmptyStr]

\* the rejection of fileToBase64: the ProgressEvent of reader.onerror has no message
ReadFailure == [ok |-> FALSE, message |-> Null]

\* the message of the caught value, without the fallback text
ErrorMessageNoFallback(e) == e.message

\* error.message || 'An unknown error occurred.'
ErrorMessage(e) == IF Truthy(e.message) THEN e.message ELSE UnknownMsg

\* file.size > 4 * 1024 * 1024
FileTooLarge(file) == SizeOf(file) > MaxFileSize

\* the input check without its test of the mask
InputMissingNoMask(orig, mask, p) == ~Truthy(orig) \/ Trim(p) = <<>>

\* !originalImage || !maskImage || !prompt.trim()
InputMissing(orig, mask, p) == ~Truthy(orig) \/ ~Truthy(mask) \/ Trim(p) = <<>>

\* status === Status.Loading || !maskImage || !prompt.trim()
isGenerateDisabled == status = Loading \/ ~Truthy(maskImage) \/ Trim(prompt) = <<>>

\* the render condition of the upload panel
UploadShown == status = Idle

\* the render condition of the editor panel, where MaskingCanvas is mounted
EditorShownFor(st, orig) == st \in {Masking, Loading, Done, Error} /\ orig # Null
EditorShown == EditorShownFor(status, originalImage)

\* pending onload and timeout callbacks of drawImage
Pending == loading.image + loading.resize + Len(timers)
NoLoading == [image |-> 0, resize |-> 0]

----------------------------------------------------------------------------
(* MaskingCanvas: lifecycle and effects, as run inside the App handlers *)

\* first render of MaskingCanvas: fresh state and canvas, then the effects in order:
\* drawImage() for the image, and clearCanvas() when clearCounter > 0
CanvasMount ==
  /\ isDrawing' = FALSE
  /\ lastPoint' = Null
  /\ dimensions' = 0
  /\ canvas' = {}
  /\ loading' = [image |-> 1, resize |-> 0]
  /\ timers' = <<>>
  /\ drawn' = {}

\* MaskingCanvas leaves the tree: its state is dropped, and the callbacks that are
\* still pending find containerRef and the canvas refs null and do nothing
CanvasUnmount ==
  /\ isDrawing' = FALSE
  /\ lastPoint' = Null
  /\ dimensions' = 0
  /\ canvas' = {}
  /\ loading' = NoLoading
  /\ timers' = <<>>
  /\ drawn' = {}

\* the canvas effects of an App handler that leaves the editor panel as it is
CanvasKept == UNCHANGED canvasVars

\* what an App handler does to MaskingCanvas, from the panel shown before and after it
CanvasFollows ==
  IF EditorShownFor(status', originalImage')
  THEN IF EditorShown THEN CanvasKept ELSE CanvasMount
  ELSE CanvasUnmount

----------------------------------------------------------------------------
(* App handlers *)

\* handleImageUpload, on the file input of the upload panel
handleImageUpload(size) ==
  LET file == PickedFile(size) IN
  /\ UploadShown
  /\ ev' = [op |-> "handleImageUpload", size |-> size]
  /\ IF FileTooLarge(file)
     THEN /\ error' = UploadSizeMsg
          /\ UNCHANGED <<status, originalImage, maskImage, generatedImage>>
     ELSE /\ originalImage' = file
          /\ status' = Masking
          /\ error' = Null
          /\ generatedImage' = Null
          \* setMaskImage(null), then the clear effect of the mounting canvas
          /\ maskImage' = IF clearCanvasCounter > 0 THEN EmptyStr ELSE Null
  /\ CanvasFollows
  /\ UNCHANGED <<prompt, brushSize, clearCanvasCounter>>
  /\ UNCHANGED reqVars

\* handleClearMask, then the clear effect of MaskingCanvas: clearCanvas()
handleClearMask ==
  /\ EditorShown
  /\ clearCanvasCounter < MaxClear
  /\ ev' = [op |-> "handleClearMask"]
  /\ clearCanvasCounter' = clearCanvasCounter + 1
  \* setMaskImage(null), then onMaskChange('') of clearCanvas
  /\ maskImage' = EmptyStr
  /\ canvas' = {}
  /\ drawn' = {}
  /\ UNCHANGED <<status, originalImage, prompt, generatedImage, error, brushSize>>
  /\ UNCHANGED <<isDrawing, lastPoint, dimensions, loading, timers>>
  /\ UNCHANGED reqVars

\* handleStartOver
handleStartOver ==
  /\ EditorShown
  /\ ev' = [op |-> "handleStartOver"]
  /\ status' = Idle
  /\ originalImage' = Null
  /\ maskImage' = Null
  /\ prompt' = <<>>
  /\ generatedImage' = Null
  /\ error' = Null
  /\ clearCanvasCounter' = 0
  /\ CanvasFollows
  /\ UNCHANGED brushSize
  /\ UNCHANGED reqVars

\* handleUseResultAsInput, on the Continue Editing button, then the effects of
\* MaskingCanvas: drawImage() for the new imageUrl and clearCanvas()
handleUseResultAsInput ==
  /\ EditorShown
  /\ Truthy(generatedImage) /\ status = Done
  /\ clearCanvasCounter < MaxClear
  /\ Pending < MaxPending
  /\ ev' = [op |-> "handleUseResultAsInput"]
  /\ originalImage' = dataURLtoFile(generatedImage, "edited-image.png")
  /\ status' = Masking
  /\ generatedImage' = Null
  \* setMaskImage(null), then onMaskChange('') of clearCanvas
  /\ maskImage' = EmptyStr
  /\ prompt' = <<>>
  /\ error' = Null
  /\ clearCanvasCounter' = clearCanvasCounter + 1
  /\ loading' = [loading EXCEPT !.image = @ + 1]
  /\ canvas' = {}
  /\ drawn' = {}
  /\ UNCHANGED brushSize
  /\ UNCHANGED <<isDrawing, lastPoint, dimensions, timers>>
  /\ UNCHANGED reqVars

\* onChange of the prompt textarea
setPrompt(p) ==
  /\ EditorShown
  /\ ev' = [op |-> "other"]
  /\ prompt' = p
  /\ UNCHANGED <<status, originalImage, maskImage, generatedImage, error, brushSize, clearCanvasCounter>>
  /\ UNCHANGED canvasVars
  /\ UNCHANGED reqVars

\* onChange of the brush-size slider
setBrushSize(b) ==
  /\ EditorShown
  /\ ev' = [op |-> "other"]
  /\ brushSize' = b
  /\ UNCHANGED <<status, originalImage, maskImage, prompt, generatedImage, error, clearCanvasCounter>>
  /\ UNCHANGED canvasVars
  /\ UNCHANGED reqVars

\* handleGenerate up to its first await: the input check, then the Loading state and
\* the start of fileToBase64
handleGenerate ==
  /\ ev' = [op |-> "handleGenerate", sent |-> ~InputMissing(originalImage, maskImage, prompt)]
  /\ IF InputMissing(originalImage, maskImage, prompt)
     THEN /\ error' = GenerateInputMsg
          /\ UNCHANGED <<status, generatedImage>>
          /\ UNCHANGED reqVars
     ELSE /\ accepted < MaxRequests
          /\ status' = Loading
          /\ error' = Null
          /\ generatedImage' = Null
          /\ accepted' = accepted + 1
          /\ requests' = requests \cup
               {[id |-> accepted + 1, phase |-> "reading", originalImage |-> originalImage,
                 maskImage |-> maskImage, prompt |-> prompt,
                 base64 |-> Null, mimeType |-> Null, maskImageBase64 |-> Null]}
          /\ UNCHANGED calls
  /\ UNCHANGED <<originalImage, maskImage, prompt, brushSize, clearCanvasCounter>>
  /\ UNCHANGED canvasVars

\* click on the Generate Makeover button
Generate ==
  /\ EditorShown
  /\ ~isGenerateDisabled
  /\ handleGenerate

\* click on the Try Again button of the error display
TryAgain ==
  /\ EditorShown
  /\ status = Error /\ Truthy(error)
  /\ handleGenerate

----------------------------------------------------------------------------
(* handleGenerate after its awaits, and generateInpaintedImage *)

\* the try block after a resolved await of generateInpaintedImage
OnSuccess(r, out) ==
  /\ generatedImage' = DataUrl("image/png", out.data)
  /\ status' = Done
  /\ requests' = requests \ {r}
  /\ UNCHANGED <<error, accepted, calls>>

\* a catch block that shows the error and calls generateContent again
OnFailureRetry(r, out) ==
  /\ error' = ErrorMessage(out)
  /\ status' = Error
  /\ requests' = (requests \ {r}) \cup {[r EXCEPT !.phase = "calling"]}
  /\ calls' = calls + 1
  /\ UNCHANGED <<generatedImage, accepted>>

\* the catch block of handleGenerate: the error is shown, nothing is sent again
OnFailure(r, out) ==
  /\ error' = ErrorMessage(out)
  /\ status' = Error
  /\ requests' = requests \ {r}
  /\ UNCHANGED <<generatedImage, accepted, calls>>

\* a request settles with the outcome out of its awaits
Settle(r, out) ==
  /\ ev' = [op |-> "settle", ok |-> out.ok]
  /\ IF out.ok THEN OnSuccess(r, out) ELSE OnFailure(r, out)
  /\ UNCHANGED <<originalImage, maskImage, prompt, brushSize, clearCanvasCounter>>
  /\ CanvasFollows

\* reader.onload: fileToBase64 resolves and generateInpaintedImage calls
\* ai.models.generateContent
ReadDone(r) ==
  /\ r \in requests /\ r.phase = "reading"
  /\ ev' = [op |-> "generateContent"]
  /\ LET read == fileToBase64(r.originalImage)
     IN  requests' = (requests \ {r}) \cup
           {[r EXCEPT !.phase = "calling", !.base64 = read.base64, !.mimeType = read.mimeType,
                      !.maskImageBase64 = maskBase64(r.maskImage)]}
  /\ calls' = calls + 1
  /\ UNCHANGED accepted
  /\ UNCHANGED appVars
  /\ UNCHANGED canvasVars

\* reader.onerror: fileToBase64 rejects
ReadFails(r) ==
  /\ r \in requests /\ r.phase = "reading"
  /\ Settle(r, ReadFailure)

\* generateContent resolves or rejects
Respond(r, kind) ==
  /\ r \in requests /\ r.phase = "calling"
  /\ Settle(r, ServiceOutcome(r, kind))

----------------------------------------------------------------------------
(* MaskingCanvas events *)

\* the mouse reaches the drawing canvas only where it is displayed
CanvasHit == EditorShown /\ dimensions > 0

\* if (!isDrawing) return, of draw
DrawGuard(drawing) == drawing

\* stopDrawing without its early return
StopGuardAlways(drawing) == TRUE

\* if (!isDrawing) return, of stopDrawing
StopGuard(drawing) == drawing

\* the resize listener of the window: drawImage()
Resize ==
  /\ EditorShown
  /\ Pending < MaxPending
  /\ ev' = [op |-> "other"]
  /\ loading' = [loading EXCEPT !.resize = @ + 1]
  /\ UNCHANGED <<isDrawing, lastPoint, dimensions, canvas, timers, drawn>>
  /\ UNCHANGED appVars
  /\ UNCHANGED reqVars

\* image.onload of drawImage: the new size is computed from the container and
\* the work on the canvases is put off with setTimeout(.., 0)
ImageOnload(kind, w) ==
  /\ loading[kind] > 0
  /\ ev' = [op |-> "other"]
  /\ loading' = [loading EXCEPT ![kind] = @ - 1]
  /\ dimensions' = w
  /\ timers' = Append(timers, [kind |-> kind, w |-> w])
  /\ UNCHANGED <<isDrawing, lastPoint, canvas, drawn>>
  /\ UNCHANGED appVars
  /\ UNCHANGED reqVars

\* the timeout of drawImage: both canvases get the new width and height, which
\* resets the bitmap of the drawing canvas, and the image is drawn
DrawImageTimeout ==
  /\ timers # <<>>
  /\ ev' = [op |-> "other"]
  /\ timers' = Tail(timers)
  /\ canvas' = {}
  /\ drawn' = IF Head(timers).kind = "image" THEN {} ELSE drawn
  /\ UNCHANGED <<isDrawing, lastPoint, dimensions, loading>>
  /\ UNCHANGED appVars
  /\ UNCHANGED reqVars

\* onMouseDown
startDrawing(c) ==
  /\ CanvasHit
  /\ ev' = [op |-> "other"]
  /\ isDrawing' = TRUE
  /\ lastPoint' = c
  /\ UNCHANGED <<dimensions, canvas, loading, timers, drawn>>
  /\ UNCHANGED appVars
  /\ UNCHANGED reqVars

\* draw without its early returns: a segment is stroked whenever the mouse moves
drawOnHover(c) ==
  /\ CanvasHit
  /\ ev' = [op |-> "other"]
  /\ LET seg == <<IF lastPoint # Null THEN lastPoint ELSE c, c, brushSize>> IN
     /\ canvas' = canvas \cup {seg}
     /\ drawn' = drawn \cup {seg}
     /\ lastPoint' = c
  /\ UNCHANGED <<isDrawing, dimensions, loading, timers>>
  /\ UNCHANGED appVars
  /\ UNCHANGED reqVars

\* onMouseMove: a segment from the last point, of width brushSize and colour brushColor
draw(c) ==
  /\ CanvasHit
  /\ ev' = [op |-> "other"]
  /\ IF DrawGuard(isDrawing) /\ lastPoint # Null
     THEN LET seg == <<lastPoint, c, brushSize>> IN
          /\ canvas' = canvas \cup {seg}
          /\ drawn' = drawn \cup {seg}
          /\ lastPoint' = c
     ELSE UNCHANGED <<canvas, drawn, lastPoint>>
  /\ UNCHANGED <<isDrawing, dimensions, loading, timers>>
  /\ UNCHANGED appVars
  /\ UNCHANGED reqVars

\* stopDrawing, with handleMaskChange as onMaskChange
stopDrawing ==
  /\ CanvasHit
  /\ IF StopGuard(isDrawing)
     THEN /\ isDrawing' = FALSE
          /\ lastPoint' = Null
          /\ maskImage' = toDataURL(canvas)
          /\ ev' = [op |-> "stopDrawing", onMaskChange |-> 1]
     ELSE /\ UNCHANGED <<isDrawing, lastPoint, maskImage>>
          /\ ev' = [op |-> "stopDrawing", onMaskChange |-> 0]
  /\ UNCHANGED <<status, originalImage, prompt, generatedImage, error, brushSize, clearCanvasCounter>>
  /\ UNCHANGED <<dimensions, canvas, loading, timers, drawn>>
  /\ UNCHANGED reqVars

\* onMouseUp
MouseUp == stopDrawing

\* onMouseLeave
MouseLeave == stopDrawing

----------------------------------------------------------------------------
(* The specification *)

Init ==
  /\ status = Idle
  /\ originalImage = Null
  /\ maskImage = Null
  /\ prompt = <<>>
  /\ generatedImage = Null
  /\ error = Null
  /\ brushSize = DefaultBrush
  /\ clearCanvasCounter = 0
  /\ isDrawing = FALSE
  /\ lastPoint = Null
  /\ dimensions = 0
  /\ canvas = {}
  /\ loading = NoLoading
  /\ timers = <<>>
  /\ requests = {}
  /\ accepted = 0
  /\ calls = 0
  /\ drawn = {}
  /\ ev = [op |-> "init"]

\* the handlers of App and the continuations of handleGenerate
AppStep(sizes, prompts, kinds) ==
  \/ \E size \in sizes : handleImageUpload(size)
  \/ handleClearMask
  \/ handleStartOver
  \/ handleUseResultAsInput
  \/ \E p \in prompts : setPrompt(p)
  \/ Generate
  \/ TryAgain
  \/ \E r \in requests : ReadDone(r)
  \/ \E r \in requests : ReadFails(r)
  \/ \E r \in requests, kind \in kinds : Respond(r, kind)

\* the callbacks of drawImage and the mouse events of the drawing canvas
StrokeStep(points, widths) ==
  \/ \E kind \in {"image", "resize"}, w \in widths : ImageOnload(kind, w)
  \/ DrawImageTimeout
  \/ \E c \in points : startDrawing(c)
  \/ \E c \in points : draw(c)
  \/ MouseUp
  \/ MouseLeave

\* every operation of the program, with one brush size and one canvas width
Next ==
  \/ AppStep(FileSizes, Prompts, ResponseKinds)
  \/ \E b \in {DefaultBrush} : setBrushSize(b)
  \/ Resize
  \/ StrokeStep(Points, {1})

Spec == Init /\ [][Next]_vars

\* the generation flow: every handler of App with every prompt and response, one
\* accepted and one refused file, and the canvas events that deliver a mask
NextFlow ==
  \/ AppStep({MaxFileSize - 1, MaxFileSize + 1}, Prompts, ResponseKinds)
  \/ StrokeStep(Points, {1})

SpecFlow == Init /\ [][NextFlow]_vars

\* the editor up to its first result and the Continue Editing that follows it:
\* every brush size and width, one file, one prompt, a response with image data
NextCanvas ==
  \/ \E size \in {MaxFileSize - 1} : handleImageUpload(size)
  \/ handleClearMask
  \/ handleStartOver
  \/ handleUseResultAsInput
  \/ \E p \in {<<"a">>} : setPrompt(p)
  \/ accepted = 0 /\ Generate
  \/ \E r \in requests : ReadDone(r)
  \/ \E r \in requests : Respond(r, "image")
  \/ \E b \in BrushSizes : setBrushSize(b)
  \/ Resize
  \/ StrokeStep(Points, Widths)

SpecCanvas == Init /\ [][NextCanvas]_vars

----------------------------------------------------------------------------
(* Properties *)

\* a value that is null or the empty string
Missing(v) == v = Null \/ v = EmptyStr

\* a prompt without any character that is not a space
Blank(p) == \A i \in 1..Len(p) : p[i] = " "

Reading == {r \in requests : r.phase = "reading"}

\* C1: every request in flight was started with a loaded image, a mask that is
\* neither null nor empty and a prompt with a non-space character; and a call of
\* handleGenerate with one of the three missing starts no request, sets the
\* 'Please upload ...' error and leaves status and generatedImage as they were.
C1_GenerateNeedsInput ==
  [][/\ \A r \in requests' :
          r.originalImage # Null /\ ~Missing(r.maskImage) /\ ~Blank(r.prompt)
     /\ (ev'.op = "handleGenerate" /\ (originalImage = Null \/ Missing(maskImage) \/ Blank(prompt)))
          => /\ error' = GenerateInputMsg
             /\ UNCHANGED <<status, generatedImage, requests, accepted, calls>>]_vars

\* C1: a call of handleGenerate was refused for a missing input
C1_Witness ==
  /\ ev.op = "handleGenerate" /\ ~ev.sent
  /\ error = GenerateInputMsg
  /\ Missing(maskImage) \/ Blank(prompt)

\* C2 as stated: every step that changes the content of the drawing canvas of a
\* mounted MaskingCanvas happens while isDrawing is true.
C2_OnlyWhileDrawing ==
  [][(EditorShown /\ EditorShown' /\ canvas' # canvas) => isDrawing]_vars

\* C2 as amended: segments are only added to the drawing canvas while isDrawing is
\* true, and isDrawing only becomes true in startDrawing; every other change of the
\* canvas erases all of it (Clear mask, Continue Editing, and the timeout of
\* drawImage after an image load or a window resize).
C2_StrokesOnlyWhileDrawing ==
  [][/\ (EditorShown /\ EditorShown' /\ canvas' # canvas)
          => \/ isDrawing /\ canvas \subseteq canvas'
             \/ canvas' = {}
     /\ (isDrawing' /\ ~isDrawing) => lastPoint' # Null]_vars

\* C2: a segment was stroked during a stroke
C2_Witness == EditorShown /\ isDrawing /\ canvas # {}

\* C3: a mouseup or mouseleave during a stroke ends the stroke and calls
\* onMaskChange once, after which maskImage is the serialization of the drawing
\* canvas; outside a stroke it calls onMaskChange zero times and maskImage keeps
\* its value.
C3_SerializedOnRelease ==
  [][ev'.op = "stopDrawing"
       => IF isDrawing
          THEN /\ ~isDrawing'
               /\ ev'.onMaskChange = 1
               /\ maskImage' = DataUrl("image/png", canvas)
               /\ canvas' = canvas
          ELSE /\ ev'.onMaskChange = 0
               /\ maskImage' = maskImage]_vars

\* C3: a stroke with a segment was released and its mask delivered
C3_Witness ==
  /\ ev.op = "stopDrawing" /\ ev.onMaskChange = 1
  /\ canvas # {}
  /\ maskImage = DataUrl("image/png", canvas)

\* C4: the mask delivered at the end of a stroke contains every segment stroked
\* since the last clear, or since the image was first drawn.
C4_MaskAccumulates ==
  (ev.op = "stopDrawing" /\ ev.onMaskChange = 1) => drawn \subseteq maskImage.data

\* C5 as stated: once no request is outstanding, every accepted call of
\* handleGenerate has made exactly one call of generateContent.
C5_ExactlyOneCall == requests = {} => calls = accepted

\* C5 as amended: an accepted call of handleGenerate makes at most one call of
\* generateContent; the call is made when its file read succeeds, by no other
\* step, and settling a request (a failure or an image-less response included)
\* makes no call.
C5_AtMostOneCall ==
  [][/\ calls' + Cardinality(Reading') <= accepted'
     /\ calls' # calls
          => /\ calls' = calls + 1
             /\ ev'.op = "generateContent"
             /\ \E r \in Reading : \E q \in requests' \ Reading' : q.id = r.id
     /\ ev'.op = "generateContent" => calls' = calls + 1
     /\ ev'.op = "settle" => calls' = calls /\ Cardinality(requests') < Cardinality(requests)]_vars

\* C5: a request failed after its one call, and nothing is outstanding
C5_Witness ==
  /\ ev.op = "settle" /\ ~ev.ok
  /\ requests = {}
  /\ calls = 1 /\ accepted = 1

\* C6: a file of 4MB or more is refused with the size error and originalImage,
\* status, maskImage and generatedImage keep their values; a file of less than 4MB
\* becomes originalImage, with status Masking and error, maskImage and
\* generatedImage null.
C6_UploadLimit ==
  [][ev'.op = "handleImageUpload"
       => IF ev'.size >= MaxFileSize
          THEN /\ error' = UploadSizeMsg
               /\ UNCHANGED <<originalImage, status, maskImage, generatedImage>>
          ELSE /\ originalImage' = PickedFile(ev'.size)
               /\ status' = Masking
               /\ error' = Null /\ maskImage' = Null /\ generatedImage' = Null]_vars

\* C7: an accepted handleGenerate leaves status Loading with error and
\* generatedImage null; a request that settles with image data leaves status Done
\* with a generatedImage, one that settles with a failure leaves status Error with
\* an error message that is neither null nor empty.
C7_SettledStatus ==
  /\ (ev.op = "handleGenerate" /\ ev.sent)
       => status = Loading /\ error = Null /\ generatedImage = Null
  /\ (ev.op = "settle" /\ ev.ok)
       => status = Done /\ ~Missing(generatedImage)
  /\ (ev.op = "settle" /\ ~ev.ok)
       => status = Error /\ ~Missing(error)

\* C7: a request failed with an Error that has no message
C7_Witness == ev.op = "settle" /\ ~ev.ok /\ status = Error /\ error = UnknownMsg

\* C8: status is Idle or an original image is loaded, so one panel is rendered.
C8_PanelShown == status = Idle \/ originalImage # Null

\* C9: at most one request is outstanding.
C9_OneOutstanding == Cardinality(requests) <= 1

\* C10: when status is Done and the result is displayed next to the original
\* image, generatedImage is the result of the request started last, and that
\* request was made with the current originalImage.
C10_ResultIsCurrent ==
  (status = Done /\ EditorShown)
    => /\ generatedImage # Null
       /\ generatedImage.data.req = accepted
       /\ generatedImage.data.of = originalImage.bytes

====
